---- MODULE Spec2Model ----
(***************************************************************************)
(* fastapi-deprecation: the evaluation engine (engine.py), the dependency  *)
(* and decorator adapters (dependencies.py, core.py), the path-prefix      *)
(* middleware (middleware.py) and the two module-level telemetry callback  *)
(* references, as one state machine.                                       *)
(*                                                                         *)
(* Instants are integers counted in ticks, TicksPerSecond ticks to the     *)
(* second, so that whole-second truncation is visible.  An optional value  *)
(* that is None in the source is NoDate (dates) or "None" (strings).  A    *)
(* uniform draw random.random() is r / Den with r in 0..Den-1, and a       *)
(* brownout probability is p / Den.  A header value is a sequence of       *)
(* tokens, the comma-joined parts of the header; an absent header is <<>>. *)
(* A telemetry callback either returns or raises when it is invoked.       *)
(* Spec runs the program over the policies of ArgsUniverse; TelemetrySpec  *)
(* runs it over the policies and the callbacks of the telemetry tests;     *)
(* PrefixSpec runs the middleware over several registered prefixes and the *)
(* documentation annotator; DateSpec takes a date input through utils.py;  *)
(* RaceSpec runs a request's telemetry block one read of the callback      *)
(* reference at a time, between calls of the setters.                      *)
(***************************************************************************)
EXTENDS Integers, Sequences, FiniteSets, TLC

\* ------------------------------------------------------------- bounds
MaxTime == 3
MaxWindows == 2
Den == 4
TicksPerSecond == 2
MaxSharedLinks == 4

NoDate == -1

Times == 0..MaxTime
Dates == {NoDate} \cup Times
Draws == 0..(Den - 1)

\* ------------------------------------------------------------ headers
HeaderNames ==
    {"Deprecation", "Link", "Sunset", "Cache-Control", "Cache-Tag",
     "Surrogate-Key", "Location"}

NoHeaders == [h \in HeaderNames |-> <<>>]

\* utils.parse_date on an aware datetime: the instant itself (UTC).
parse_date(value) == value

\* format_deprecation_date with the timestamp rounded to the nearest second
format_deprecation_date_rounded(value) ==
    << <<"@", (parse_date(value) + (TicksPerSecond \div 2)) \div TicksPerSecond>> >>

\* utils.format_deprecation_date: f"@{int(dt.timestamp())}", the "@" and the
\* whole seconds of the instant.
format_deprecation_date(value) ==
    << <<"@", parse_date(value) \div TicksPerSecond>> >>

\* utils.format_sunset_date: format_datetime(dt, usegmt=True), an HTTP-date,
\* which has whole-second resolution.
format_sunset_date(value) ==
    << <<"HTTP-date", parse_date(value) \div TicksPerSecond>> >>

\* f'<{url}>; rel="{rel}"' for rel, url in links.items()
new_links(links) == [i \in DOMAIN links |-> [url |-> links[i][2], rel |-> links[i][1]]]

\* int((sunset_date - now).total_seconds()): Python's int() truncates toward 0.
whole_seconds(delta) ==
    IF delta >= 0 THEN delta \div TicksPerSecond ELSE -((-delta) \div TicksPerSecond)

\* ------------------------------------------------------------- policy
DefaultArgs ==
    [deprecation_date |-> NoDate, sunset_date |-> NoDate, brownouts |-> <<>>,
     alternative |-> "None", link |-> "None", links |-> <<>>, detail |-> "None",
     custom_response |-> "None", inject_cache_control |-> FALSE,
     cache_tag |-> "None", brownout_probability |-> 0,
     progressive_brownout |-> FALSE]

\* --------------------------------------------------------- engine.py
\* sunset_passed with the instant of sunset itself still served
sunset_passed_strict(config, now) ==
    config.sunset_date # NoDate /\ now > config.sunset_date

\* sunset_passed with a missing sunset date taken as already past
sunset_passed_unset(config, now) ==
    config.sunset_date = NoDate \/ now >= config.sunset_date

\* engine.py 88: config.sunset_date and now >= config.sunset_date
sunset_passed(config, now) ==
    config.sunset_date # NoDate /\ now >= config.sunset_date

\* engine.py 91-95: some (start, end) of config.brownouts has start <= now <= end
in_brownout(config, now) ==
    \E i \in DOMAIN config.brownouts :
        config.brownouts[i][1] <= now /\ now <= config.brownouts[i][2]

\* engine.py 98-100: the progressive branch is the one taken
progressive_branch(config) ==
    config.progressive_brownout /\ config.sunset_date # NoDate

\* engine.py 98-114: whether random.random() is called in this evaluation
chaos_draws(config, now) ==
    /\ ~sunset_passed(config, now)
    /\ ~in_brownout(config, now)
    /\ config.deprecation_date # NoDate
    /\ now >= config.deprecation_date
    /\ IF progressive_branch(config)
       THEN config.sunset_date - config.deprecation_date > 0
       ELSE config.brownout_probability > 0

\* progressive_hit with the probability falling from 1.0 at deprecation_date
\* to 0.0 at sunset_date
progressive_hit_remaining(config, now, r) ==
    r * (config.sunset_date - config.deprecation_date)
        < (config.sunset_date - now) * Den

\* engine.py 102-110: random.random() < elapsed_duration / total_duration,
\* with total_duration > 0 (both sides multiplied by total * Den)
progressive_hit(config, now, r) ==
    r * (config.sunset_date - config.deprecation_date)
        < (now - config.deprecation_date) * Den

\* engine.py 111-114: random.random() < config.brownout_probability
static_hit(config, r) == r < config.brownout_probability

\* engine.py 87-114: the value of is_sunset when the headers are computed
is_sunset(config, now, r) ==
    \/ sunset_passed(config, now)
    \/ in_brownout(config, now)
    \/ /\ chaos_draws(config, now)
       /\ IF progressive_branch(config)
          THEN progressive_hit(config, now, r)
          ELSE static_hit(config, r)

\* engine.py 116-137: the headers dict of the result
result_headers(config, now, blocked) ==
    [h \in HeaderNames |->
        CASE h = "Deprecation" ->
               format_deprecation_date(
                   IF config.deprecation_date # NoDate
                   THEN config.deprecation_date ELSE now)
          [] h = "Link" -> new_links(config.links)
          [] h = "Sunset" ->
               IF config.sunset_date # NoDate
               THEN format_sunset_date(config.sunset_date) ELSE <<>>
          [] h = "Cache-Control" ->
               IF /\ config.sunset_date # NoDate
                  /\ config.inject_cache_control
                  /\ ~blocked
                  /\ whole_seconds(config.sunset_date - now) > 0
               THEN << <<"max-age", whole_seconds(config.sunset_date - now)>> >>
               ELSE <<>>
          [] h = "Cache-Tag" ->
               IF config.cache_tag # "None" THEN <<config.cache_tag>> ELSE <<>>
          [] h = "Surrogate-Key" ->
               IF config.cache_tag # "None" THEN <<config.cache_tag>> ELSE <<>>
          [] OTHER -> <<>>]

\* engine.py 79-142: DeprecationResult(action, headers); draws is the list of
\* values random.random() returned during the call
evaluate_deprecation(config, now, r) ==
    LET blocked == is_sunset(config, now, r) IN
    [action |-> IF blocked THEN "BLOCK" ELSE "WARN",
     headers |-> result_headers(config, now, blocked),
     draws |-> IF chaos_draws(config, now) THEN <<r>> ELSE <<>>]

\* engine.py 145-160: Link and Cache-Control are appended to an existing
\* value, every other key of headers overwrites
apply_headers(target, headers) ==
    [h \in HeaderNames |->
        IF headers[h] = <<>> THEN target[h]
        ELSE IF h \in {"Link", "Cache-Control"} THEN target[h] \o headers[h]
        ELSE headers[h]]

ReplacedMessage == "Endpoint is deprecated and replaced."
GoneMessage == "Endpoint is deprecated and no longer available."

\* The response object a custom_response stands for (a JSONResponse the
\* application built, tests/test_custom_responses.py 14-17); its body is its own.
CustomBody == [fmt |-> "custom", detail |-> "custom"]

\* block_base with the redirect answered 302 Found
block_base_found(config, shared) ==
    IF config.custom_response # "None"
    THEN [status |-> 410,
          headers |-> IF config.custom_response = "value" THEN shared ELSE NoHeaders,
          body |-> CustomBody]
    ELSE IF config.alternative # "None"
    THEN [status |-> 302,
          headers |-> [NoHeaders EXCEPT !["Location"] = <<config.alternative>>],
          body |-> [fmt |-> "text",
                    detail |-> IF config.detail # "None"
                               THEN config.detail ELSE ReplacedMessage]]
    ELSE [status |-> 410,
          headers |-> NoHeaders,
          body |-> [fmt |-> "json",
                    detail |-> IF config.detail # "None"
                               THEN config.detail ELSE GoneMessage]]

\* engine.py 169-187: the response build_block_response starts from;
\* shared is the header state of a custom_response given as a value
block_base(config, shared) ==
    IF config.custom_response # "None"
    THEN [status |-> 410,
          headers |-> IF config.custom_response = "value" THEN shared ELSE NoHeaders,
          body |-> CustomBody]
    ELSE IF config.alternative # "None"
    THEN [status |-> 301,
          headers |-> [NoHeaders EXCEPT !["Location"] = <<config.alternative>>],
          body |-> [fmt |-> "text",
                    detail |-> IF config.detail # "None"
                               THEN config.detail ELSE ReplacedMessage]]
    ELSE [status |-> 410,
          headers |-> NoHeaders,
          body |-> [fmt |-> "json",
                    detail |-> IF config.detail # "None"
                               THEN config.detail ELSE GoneMessage]]

\* engine.py 163-190
build_block_response(config, result, shared) ==
    LET response == block_base(config, shared) IN
    [response EXCEPT !.headers = apply_headers(response.headers, result.headers)]

\* ---------------------------------------------------------- telemetry
\* What one invocation of a callback does: it returns, or it raises an
\* exception (for a coroutine function: its awaited completion raises).
CallbackOutcomes == {"returned", "Exception"}

\* inspect.iscoroutinefunction(callback)
iscoroutinefunction(callback) == callback = "async_telemetry_callback"

\* except_Exception with no handler around the call
except_nothing(outcome) ==
    IF outcome = "returned" THEN "none" ELSE outcome

\* try: <call or await the callback> except Exception: the error that leaves
\* the statement (engine.py 32-40, dependencies.py 141-149, middleware.py
\* 84-94 and 157-163)
except_Exception(outcome) ==
    IF outcome \in {"returned", "Exception"} THEN "none" ELSE outcome

\* One callback invocation as the callback sees it: the response context it is
\* handed, and what the invocation did.
Invocation(callback, status, headers, outcome) ==
    [callback |-> callback, awaited |-> iscoroutinefunction(callback),
     status |-> status, headers |-> headers, outcome |-> outcome]

\* engine.py 26-40: execute_telemetry(request, response, config)
execute_telemetry(callback, response, outcome) ==
    IF callback # "None"
    THEN [calls |-> <<Invocation(callback, response.status, response.headers, outcome)>>,
          error |-> except_Exception(outcome)]
    ELSE [calls |-> <<>>, error |-> "none"]

\* --------------------------------------------------- dependencies.py
\* dependency_is_sunset with the end of a window excluded
dependency_is_sunset_open_end(self, now) ==
    \/ self.sunset_date # NoDate /\ now >= self.sunset_date
    \/ \E i \in DOMAIN self.brownouts :
           self.brownouts[i][1] <= now /\ now < self.brownouts[i][2]

\* dependencies.py 70-80: is_sunset after the sunset and brownout checks
dependency_is_sunset(self, now) ==
    \/ self.sunset_date # NoDate /\ now >= self.sunset_date
    \/ \E i \in DOMAIN self.brownouts :
           self.brownouts[i][1] <= now /\ now <= self.brownouts[i][2]

\* dependencies.py 83-104: the custom response with Deprecation, Link and
\* Sunset written onto its headers
dependency_custom_response(self, now, shared) ==
    LET res == IF self.custom_response = "value" THEN shared ELSE NoHeaders
        dt_to_emit == IF self.deprecation_date # NoDate
                      THEN self.deprecation_date ELSE now
        h1 == [res EXCEPT !["Deprecation"] = format_deprecation_date(dt_to_emit)]
        h2 == IF self.links # <<>>
              THEN [h1 EXCEPT !["Link"] = h1["Link"] \o new_links(self.links)]
              ELSE h1
        h3 == IF self.sunset_date # NoDate
              THEN [h2 EXCEPT !["Sunset"] = format_sunset_date(self.sunset_date)]
              ELSE h2
    IN [status |-> 410, headers |-> h3, body |-> CustomBody]

\* dependencies.py 108-123: the HTTPException raised; the framework answers
\* with its status, its headers and its detail as the body's detail field
dependency_http_exception(self) ==
    IF self.alternative # "None"
    THEN [status |-> 301,
          headers |-> [NoHeaders EXCEPT !["Location"] = <<self.alternative>>],
          body |-> [fmt |-> "http_exception",
                    detail |-> IF self.detail # "None"
                               THEN self.detail ELSE ReplacedMessage]]
    ELSE [status |-> 410,
          headers |-> NoHeaders,
          body |-> [fmt |-> "http_exception",
                    detail |-> IF self.detail # "None"
                               THEN self.detail ELSE GoneMessage]]

\* dependencies.py 82-123: the response that ends a blocked request
dependency_block(self, now, shared) ==
    IF self.custom_response # "None"
    THEN dependency_custom_response(self, now, shared)
    ELSE dependency_http_exception(self)

\* dependencies.py 137-138: response.headers when the callback is invoked
dependency_headers_at_callback(self, now) ==
    [NoHeaders EXCEPT !["Deprecation"] =
        format_deprecation_date(IF self.deprecation_date # NoDate
                                THEN self.deprecation_date ELSE now)]

\* dependencies.py 140-149: the callback is handed the response object the
\* framework injected, which has no status code of its own (0 here) and, so
\* far, the Deprecation header only
dependency_telemetry(callback, self, now, outcome) ==
    IF callback # "None"
    THEN [calls |-> <<Invocation(callback, 0,
                                 dependency_headers_at_callback(self, now), outcome)>>,
          error |-> except_Exception(outcome)]
    ELSE [calls |-> <<>>, error |-> "none"]

\* dependencies.py 136-174: response.headers when __call__ returns
dependency_warn_headers(self, now) ==
    LET h1 == dependency_headers_at_callback(self, now)
        h2 == IF self.links # <<>>
              THEN [h1 EXCEPT !["Link"] = h1["Link"] \o new_links(self.links)]
              ELSE h1
        h3 == IF self.sunset_date # NoDate
              THEN [h2 EXCEPT !["Sunset"] = format_sunset_date(self.sunset_date)]
              ELSE h2
    IN IF /\ self.sunset_date # NoDate
          /\ self.inject_cache_control
          /\ whole_seconds(self.sunset_date - now) > 0
       THEN [h3 EXCEPT !["Cache-Control"] =
                h3["Cache-Control"]
                    \o << <<"max-age", whole_seconds(self.sunset_date - now)>> >>]
       ELSE h3

\* ----------------------------------------------------- middleware.py
\* path.startswith(prefix), paths being sequences of segments
startswith(path, prefix) ==
    /\ Len(prefix) <= Len(path)
    /\ \A i \in DOMAIN prefix : path[i] = prefix[i]

\* middleware.py 53-62: is_sunset after the sunset and brownout checks
middleware_is_sunset(matched_dep, now) ==
    \/ matched_dep.sunset_date # NoDate /\ now >= matched_dep.sunset_date
    \/ \E i \in DOMAIN matched_dep.brownouts :
           matched_dep.brownouts[i][1] <= now /\ now <= matched_dep.brownouts[i][2]

\* middleware_block with the application's 404 for an unknown path kept
middleware_block_not_found(matched_dep) ==
    IF matched_dep.alternative # "None"
    THEN [status |-> 301,
          headers |-> [NoHeaders EXCEPT !["Location"] = <<matched_dep.alternative>>],
          body |-> [fmt |-> "text",
                    detail |-> IF matched_dep.detail # "None"
                               THEN matched_dep.detail ELSE ReplacedMessage]]
    ELSE [status |-> 404,
          headers |-> NoHeaders,
          body |-> [fmt |-> "json",
                    detail |-> IF matched_dep.detail # "None"
                               THEN matched_dep.detail ELSE GoneMessage]]

\* middleware.py 64-80: the response built for a blocked request
middleware_block(matched_dep) ==
    IF matched_dep.alternative # "None"
    THEN [status |-> 301,
          headers |-> [NoHeaders EXCEPT !["Location"] = <<matched_dep.alternative>>],
          body |-> [fmt |-> "text",
                    detail |-> IF matched_dep.detail # "None"
                               THEN matched_dep.detail ELSE ReplacedMessage]]
    ELSE [status |-> 410,
          headers |-> NoHeaders,
          body |-> [fmt |-> "json",
                    detail |-> IF matched_dep.detail # "None"
                               THEN matched_dep.detail ELSE GoneMessage]]

\* middleware.py 105-149: send_wrapper's rewrite of the application's
\* http.response.start headers
middleware_warn_headers(matched_dep, now, app_headers) ==
    LET dt_to_emit == IF matched_dep.deprecation_date # NoDate
                      THEN matched_dep.deprecation_date ELSE now
        h1 == [app_headers EXCEPT !["Deprecation"] = format_deprecation_date(dt_to_emit)]
        h2 == IF matched_dep.links # <<>>
              THEN [h1 EXCEPT !["Link"] = h1["Link"] \o new_links(matched_dep.links)]
              ELSE h1
        h3 == IF matched_dep.sunset_date # NoDate
              THEN [h2 EXCEPT !["Sunset"] = format_sunset_date(matched_dep.sunset_date)]
              ELSE h2
    IN IF /\ matched_dep.sunset_date # NoDate
          /\ matched_dep.inject_cache_control
          /\ whole_seconds(matched_dep.sunset_date - now) > 0
       THEN [h3 EXCEPT !["Cache-Control"] =
                h3["Cache-Control"]
                    \o << <<"max-age", whole_seconds(matched_dep.sunset_date - now)>> >>]
       ELSE h3

\* middleware.py 82-94 (the block response about to be sent) and 153-163 (a
\* Response rebuilt from the captured status and headers)
middleware_telemetry(callback, status, headers, outcome) ==
    IF callback # "None"
    THEN [calls |-> <<Invocation(callback, status, headers, outcome)>>,
          error |-> except_Exception(outcome)]
    ELSE [calls |-> <<>>, error |-> "none"]

\* ------------------------------------------------------ construction
\* A keyword argument counts as passed when its value is not the default.
Passed(args, names) == \E f \in names : args[f] # DefaultArgs[f]

\* d[key] = value on an insertion-ordered dict of (key, value) pairs
dict_set(d, key, value) ==
    IF \E i \in DOMAIN d : d[i][1] = key
    THEN [i \in DOMAIN d |-> IF d[i][1] = key THEN <<key, value>> ELSE d[i]]
    ELSE Append(d, <<key, value>>)

\* DeprecationConfig with equal dates rejected as well
DeprecationConfig_strict(args) ==
    IF Passed(args, {"link"})
    THEN [outcome |-> "TypeError", policy |-> DefaultArgs]
    ELSE IF /\ args.deprecation_date # NoDate
            /\ args.sunset_date # NoDate
            /\ args.deprecation_date >= args.sunset_date
    THEN [outcome |-> "ValueError", policy |-> DefaultArgs]
    ELSE [outcome |-> "ok", policy |-> args]

\* engine.py 48-70: DeprecationConfig(**args); the dataclass has no link field
DeprecationConfig(args) ==
    IF Passed(args, {"link"})
    THEN [outcome |-> "TypeError", policy |-> DefaultArgs]
    ELSE IF /\ args.deprecation_date # NoDate
            /\ args.sunset_date # NoDate
            /\ args.deprecation_date > args.sunset_date
    THEN [outcome |-> "ValueError", policy |-> DefaultArgs]
    ELSE [outcome |-> "ok", policy |-> args]

\* dependencies.py 32-65: DeprecationDependency(**args); __init__ takes no
\* cache_tag, brownout_probability or progressive_brownout
DeprecationDependency(args) ==
    IF Passed(args, {"cache_tag", "brownout_probability", "progressive_brownout"})
    THEN [outcome |-> "TypeError", policy |-> DefaultArgs]
    ELSE IF /\ args.deprecation_date # NoDate
            /\ args.sunset_date # NoDate
            /\ parse_date(args.deprecation_date) > parse_date(args.sunset_date)
    THEN [outcome |-> "ValueError", policy |-> DefaultArgs]
    ELSE [outcome |-> "ok",
          policy |-> [args EXCEPT
                        !.link = "None",
                        !.links = IF args.link # "None"
                                  THEN dict_set(args.links, "deprecation", args.link)
                                  ELSE args.links]]

\* core.py 10-30: deprecated(**args) takes deprecation_date, sunset_date,
\* alternative, link, brownouts and detail, and builds a DeprecationDependency
deprecated(args) ==
    IF Passed(args, {"links", "custom_response", "inject_cache_control",
                     "cache_tag", "brownout_probability", "progressive_brownout"})
    THEN [outcome |-> "TypeError", policy |-> DefaultArgs]
    ELSE DeprecationDependency(args)

\* The ways the repository attaches a policy: a DeprecationConfig handed to
\* the engine functions or to the middleware (examples/showcase.py 181-189),
\* a DeprecationDependency as a route dependency or in the middleware's
\* deprecations, and the deprecated decorator.
Attachments ==
    {<<"DeprecationConfig", "engine">>, <<"DeprecationConfig", "middleware">>,
     <<"DeprecationDependency", "dependency">>,
     <<"DeprecationDependency", "middleware">>,
     <<"deprecated", "decorator">>}

construct(ctor, args) ==
    CASE ctor = "DeprecationConfig" -> DeprecationConfig(args)
      [] ctor = "DeprecationDependency" -> DeprecationDependency(args)
      [] OTHER -> deprecated(args)

\* ------------------------------------------------------ input sets
Windows == {w \in Times \X Times : w[1] <= w[2]}

\* Lists of at most MaxWindows windows, each starting after the previous ends
BrownoutLists ==
    UNION {{b \in [1..n -> Windows] :
                \A i \in 1..(n - 1) : b[i][2] < b[i + 1][1]} : n \in 0..MaxWindows}

FewBrownouts == {<<>>, << <<1, 1>> >>}

Link1 == <<"successor-version", "https://example.com/v2">>
Link2 == <<"deprecation", "https://example.com/deprecation">>
LinkLists == {<<>>, <<Link1>>, <<Link2, Link1>>}

\* Dates, probability and progressive flag in every combination
TimingArgs ==
    {[DefaultArgs EXCEPT !.deprecation_date = d, !.sunset_date = s,
                         !.brownouts = b, !.brownout_probability = p,
                         !.progressive_brownout = g] :
        d \in Dates, s \in Dates, b \in FewBrownouts,
        p \in {0, Den \div 2}, g \in BOOLEAN}

\* Brownout window lists in every combination
WindowArgs ==
    {[DefaultArgs EXCEPT !.sunset_date = s, !.brownouts = b] :
        s \in {NoDate, MaxTime}, b \in BrownoutLists}

\* What shapes a block response, in every combination
BlockArgs ==
    {[DefaultArgs EXCEPT !.deprecation_date = d, !.sunset_date = s,
                         !.alternative = a, !.detail = t,
                         !.custom_response = c, !.links = l] :
        d \in {NoDate, 1}, s \in {NoDate, MaxTime - 1},
        a \in {"None", "/new"}, t \in {"None", "Use /new."},
        c \in {"None", "value", "factory"}, l \in {<<>>, <<Link2, Link1>>}}

\* What shapes the synthesized headers, in every combination
HeaderArgs ==
    {[DefaultArgs EXCEPT !.deprecation_date = d, !.sunset_date = s,
                         !.links = l, !.link = k,
                         !.inject_cache_control = i, !.cache_tag = g] :
        d \in {NoDate, 1}, s \in {NoDate, MaxTime},
        l \in LinkLists, k \in {"None", "https://example.com/single"},
        i \in BOOLEAN, g \in {"None", "api-v1-deprecation"}}

\* Brownout probabilities outside [0.0, 1.0]: -1/Den and (Den + 2)/Den
ProbabilityArgs ==
    {[DefaultArgs EXCEPT !.deprecation_date = d, !.sunset_date = s,
                         !.brownout_probability = p] :
        d \in {NoDate, 0}, s \in {NoDate, MaxTime}, p \in {-1, Den + 2}}

\* Cache control asked for on policies that block before sunset, by a window
\* or by a draw
CacheArgs ==
    {[DefaultArgs EXCEPT !.deprecation_date = 0, !.sunset_date = MaxTime,
                         !.inject_cache_control = TRUE, !.brownouts = b,
                         !.brownout_probability = p] :
        b \in {<<>>, << <<0, 0>> >>}, p \in {0, Den \div 2}}

ArgsUniverse ==
    TimingArgs \cup WindowArgs \cup BlockArgs \cup HeaderArgs \cup ProbabilityArgs
        \cup CacheArgs

\* What the wrapped application answers: status and headers of its own
AppResponses ==
    {[status |-> 200, headers |-> NoHeaders],
     [status |-> 200,
      headers |-> [NoHeaders EXCEPT
                     !["Link"] = <<[url |-> "https://example.com/app", rel |-> "help"]>>,
                     !["Cache-Control"] = << <<"no-cache", 0>> >>]]}

MiddlewarePrefix == <<"api", "v1">>
Paths == {<<"api", "v1", "test">>, <<"api", "v3", "test">>}

\* The callbacks an application registers: a plain function and a coroutine
\* function (tests/test_extended.py 23-29, tests/test_middleware.py 58-61)
Callbacks == {"telemetry_callback"}
TelemetryCallbacks == {"telemetry_callback", "async_telemetry_callback"}

\* The policies of the telemetry tests: a warning or a sunset policy, plain,
\* redirecting or with a custom response, with links and cache control
TelemetryArgs ==
    {[DefaultArgs EXCEPT !.deprecation_date = d, !.sunset_date = s,
                         !.links = l, !.inject_cache_control = i,
                         !.alternative = b[1], !.custom_response = b[2]] :
        d \in {NoDate, 1}, s \in {NoDate, MaxTime}, l \in {<<>>, <<Link1>>},
        i \in BOOLEAN,
        b \in {<<"None", "None">>, <<"/new", "None">>, <<"None", "value">>}}

\* ------------------------------------------------------------- state
VARIABLES
    ctor,                  \* the constructor the policy was built with
    attach,                \* where the policy is attached
    kwargs,                \* the keyword arguments the constructor was called with
    built,                 \* "none", "ok", or the error the constructor raised
    policy,                \* the constructed policy object's fields
    now,                   \* the clock: the instant of the latest request
    engine_callback,       \* engine._DEPRECATION_CALLBACK
    dependencies_callback, \* dependencies._DEPRECATION_CALLBACK
    shared_headers,        \* headers of the response object given as custom_response
    req,                   \* the latest request, how it was decided, what the
                           \* application answered and the error it ended with
    resp,                  \* the response the client received for it
    calls,                 \* telemetry callback invocations during it
    registry,              \* the deprecations dict handed to DeprecationMiddleware
    docs,                  \* what auto_deprecate_openapi did to the latest route
    conv,                  \* a date input on its way through utils.py
    inflight               \* a request whose telemetry block is executing

vars == <<ctor, attach, kwargs, built, policy, now, engine_callback,
          dependencies_callback, shared_headers, req, resp, calls,
          registry, docs, conv, inflight>>

\* The variables the requests of one attached policy leave alone.
aside == <<registry, docs, conv, inflight>>

\* req.app when the wrapped application or endpoint was not reached
NoApp == [status |-> 0, headers |-> NoHeaders]

NoReq == [kind |-> "none", action |-> "none", draws |-> <<>>, path |-> <<>>,
          app |-> NoApp, error |-> "none"]
NoResp == [status |-> 0, headers |-> NoHeaders,
           body |-> [fmt |-> "none", detail |-> "none"], app_called |-> FALSE]
AppBody == [fmt |-> "app", detail |-> "app"]

\* What the client gets when an exception leaves the handler: the server's
\* 500 answer.
ServerError == [status |-> 500, headers |-> NoHeaders,
                body |-> [fmt |-> "text", detail |-> "Internal Server Error"],
                app_called |-> FALSE]

\* No route has been annotated yet.
NoDocs == [route |-> [path |-> <<>>, own |-> "none", policy |-> DefaultArgs],
           global_deps |-> <<>>, info |-> "none", prefix |-> <<>>, at |-> 0, deprecated |-> FALSE,
           description |-> "none", error |-> "none"]

\* No date input has been taken yet.
NoValue == [type |-> "none", form |-> "none", n |-> 0]
NotParsed == [error |-> "none", instant |-> NoDate]
NoConv == [stage |-> "none", input |-> NoValue, parsed |-> NotParsed,
           header |-> <<>>, reparsed |-> NotParsed]

\* No telemetry block is executing.
NoFlight == [pc |-> "idle", reader |-> "none", checked |-> "None",
             inspected |-> "None", called |-> "None", ran |-> <<>>,
             error |-> "none"]

\* The state after import, but for the date value a caller of utils.py holds
Imported ==
    /\ ctor = "none"
    /\ attach = "none"
    /\ kwargs = DefaultArgs
    /\ built = "none"
    /\ policy = DefaultArgs
    /\ now = 0
    /\ engine_callback = "None"
    /\ dependencies_callback = "None"
    /\ shared_headers = NoHeaders
    /\ req = NoReq
    /\ resp = NoResp
    /\ calls = <<>>
    /\ registry = <<>>
    /\ docs = NoDocs
    /\ inflight = NoFlight

Init == Imported /\ conv = NoConv

\* The application builds one policy, from keyword arguments of the given
\* set, and attaches it.
ConstructFrom(universe) ==
    /\ built = "none"
    /\ \E a \in Attachments, given \in universe :
        LET made == construct(a[1], given) IN
        /\ ctor' = a[1]
        /\ attach' = a[2]
        /\ kwargs' = given
        /\ built' = made.outcome
        /\ policy' = made.policy
    /\ UNCHANGED <<now, engine_callback, dependencies_callback, shared_headers,
                   req, resp, calls>>
    /\ UNCHANGED aside

Construct == ConstructFrom(ArgsUniverse)

TelemetryConstruct == ConstructFrom(TelemetryArgs)

\* engine.py 17-19, exported as fastapi_deprecation.set_deprecation_callback
\* (__init__.py 8): a call with one of the given callbacks, or with None
engine_set_deprecation_callback(callbacks) ==
    /\ \E callback \in callbacks \cup {"None"} :
        /\ callback # engine_callback
        /\ engine_callback' = callback
    /\ UNCHANGED <<ctor, attach, kwargs, built, policy, now, dependencies_callback,
                   shared_headers, req, resp, calls>>
    /\ UNCHANGED aside

set_deprecation_callback == engine_set_deprecation_callback(Callbacks)

TelemetrySetCallback == engine_set_deprecation_callback(TelemetryCallbacks)

\* dependencies.py 15-19: dependencies.set_deprecation_callback, likewise
dependencies_set_callback(callbacks) ==
    /\ \E callback \in callbacks \cup {"None"} :
        /\ callback # dependencies_callback
        /\ dependencies_callback' = callback
    /\ UNCHANGED <<ctor, attach, kwargs, built, policy, now, engine_callback,
                   shared_headers, req, resp, calls>>
    /\ UNCHANGED aside

dependencies_set_deprecation_callback == dependencies_set_callback(Callbacks)

TelemetryDependenciesSetCallback == dependencies_set_callback(TelemetryCallbacks)

\* A response object given as custom_response is one object: what a blocked
\* request writes onto its headers stays there for the next request.
shared_after(response) ==
    IF policy.custom_response = "value" THEN response.headers ELSE shared_headers

\* A caller of the engine: evaluate_deprecation, then build_block_response on
\* BLOCK, or apply_headers onto the application's response on WARN.
EngineRequest ==
    /\ built = "ok"
    /\ attach = "engine"
    /\ \E t \in now..MaxTime, r \in Draws, app \in AppResponses :
        LET result == evaluate_deprecation(policy, t, r)
            response == build_block_response(policy, result, shared_headers)
        IN
        /\ now' = t
        /\ req' = [kind |-> "engine", action |-> result.action,
                   draws |-> result.draws, path |-> <<>>,
                   app |-> IF result.action = "BLOCK" THEN NoApp ELSE app,
                   error |-> "none"]
        /\ IF result.action = "BLOCK"
           THEN /\ Len(response.headers["Link"]) <= MaxSharedLinks
                /\ resp' = [status |-> response.status, headers |-> response.headers,
                            body |-> response.body, app_called |-> FALSE]
                /\ shared_headers' = shared_after(response)
           ELSE /\ resp' = [status |-> app.status,
                            headers |-> apply_headers(app.headers, result.headers),
                            body |-> AppBody, app_called |-> TRUE]
                /\ shared_headers' = shared_headers
        /\ calls' = <<>>
    /\ UNCHANGED <<ctor, attach, kwargs, built, policy, engine_callback,
                   dependencies_callback>>
    /\ UNCHANGED aside

\* engine.py 26-40: a caller of the engine reports the request it has just
\* decided, execute_telemetry(request, response, config), once per request.
ExecuteTelemetry ==
    /\ req.kind = "engine"
    /\ calls = <<>>
    /\ engine_callback # "None"
    /\ \E outcome \in CallbackOutcomes :
        LET telemetry == execute_telemetry(engine_callback, resp, outcome) IN
        /\ calls' = telemetry.calls
        /\ req' = [req EXCEPT !.error = telemetry.error]
    /\ UNCHANGED <<ctor, attach, kwargs, built, policy, now, engine_callback,
                   dependencies_callback, shared_headers, resp>>
    /\ UNCHANGED aside

\* dependencies.py 67-174 (DeprecationDependency.__call__), reached as a route
\* dependency or through the decorator's wrapper (core.py 46-68); a request
\* that is not blocked goes on to the endpoint, which answers 200.
DependencyRequest ==
    /\ built = "ok"
    /\ attach \in {"dependency", "decorator"}
    /\ \E t \in now..MaxTime, outcome \in CallbackOutcomes :
        LET blocked == dependency_is_sunset(policy, t)
            response == dependency_block(policy, t, shared_headers)
            telemetry == dependency_telemetry(dependencies_callback, policy, t, outcome)
        IN
        /\ now' = t
        /\ req' = [kind |-> attach, action |-> IF blocked THEN "BLOCK" ELSE "WARN",
                   draws |-> <<>>, path |-> <<>>, app |-> NoApp,
                   error |-> IF blocked THEN "none" ELSE telemetry.error]
        /\ IF blocked
           THEN /\ Len(response.headers["Link"]) <= MaxSharedLinks
                /\ resp' = [status |-> response.status, headers |-> response.headers,
                            body |-> response.body, app_called |-> FALSE]
                /\ shared_headers' = shared_after(response)
                /\ calls' = <<>>
           ELSE /\ resp' = IF telemetry.error # "none" THEN ServerError
                            ELSE [status |-> 200,
                                  headers |-> dependency_warn_headers(policy, t),
                                  body |-> AppBody, app_called |-> TRUE]
                /\ shared_headers' = shared_headers
                /\ calls' = telemetry.calls
    /\ UNCHANGED <<ctor, attach, kwargs, built, policy, engine_callback,
                   dependencies_callback>>
    /\ UNCHANGED aside

\* middleware.py 27-30: the deprecations dict, longest prefix first
deprecations == << <<MiddlewarePrefix, policy>> >>

\* middleware.py 40-49: whether some registered prefix matches the path
matched(path) == \E i \in DOMAIN deprecations : startswith(path, deprecations[i][1])

\* middleware.py 47-163: __call__ for an http scope once the prefixes were
\* tried; found tells whether one matched and matched_dep is its policy
middleware_call(found, matched_dep, t, path, app, callback, outcome) ==
    LET blocked == middleware_is_sunset(matched_dep, t)
        response == middleware_block(matched_dep)
        headers == middleware_warn_headers(matched_dep, t, app.headers)
        block_telemetry ==
            middleware_telemetry(callback, response.status, response.headers, outcome)
        warn_telemetry ==
            middleware_telemetry(callback, app.status, headers, outcome)
    IN
    IF ~found
    THEN [req |-> [kind |-> "middleware", action |-> "PASS",
                   draws |-> <<>>, path |-> path, app |-> app,
                   error |-> "none"],
          resp |-> [status |-> app.status, headers |-> app.headers,
                    body |-> AppBody, app_called |-> TRUE],
          calls |-> <<>>]
    ELSE IF blocked
    THEN [req |-> [kind |-> "middleware", action |-> "BLOCK",
                   draws |-> <<>>, path |-> path, app |-> NoApp,
                   error |-> block_telemetry.error],
          resp |-> IF block_telemetry.error # "none" THEN ServerError
                   ELSE [status |-> response.status,
                         headers |-> response.headers,
                         body |-> response.body, app_called |-> FALSE],
          calls |-> block_telemetry.calls]
    ELSE [req |-> [kind |-> "middleware", action |-> "WARN",
                   draws |-> <<>>, path |-> path, app |-> app,
                   error |-> warn_telemetry.error],
          resp |-> [status |-> app.status, headers |-> headers,
                    body |-> AppBody, app_called |-> TRUE],
          calls |-> warn_telemetry.calls]

\* middleware.py 32-163 (DeprecationMiddleware.__call__) for an http scope
MiddlewareRequest ==
    /\ built = "ok"
    /\ attach = "middleware"
    /\ \E t \in now..MaxTime, path \in Paths, app \in AppResponses,
          outcome \in CallbackOutcomes :
        LET served == middleware_call(matched(path), policy, t, path, app,
                                      dependencies_callback, outcome)
        IN
        /\ now' = t
        /\ req' = served.req
        /\ resp' = served.resp
        /\ calls' = served.calls
    /\ UNCHANGED <<ctor, attach, kwargs, built, policy, engine_callback,
                   dependencies_callback, shared_headers>>
    /\ UNCHANGED aside

Next ==
    \/ Construct
    \/ set_deprecation_callback
    \/ dependencies_set_deprecation_callback
    \/ EngineRequest
    \/ ExecuteTelemetry
    \/ DependencyRequest
    \/ MiddlewareRequest

Spec == Init /\ [][Next]_vars

\* The same program with the callbacks and the policies of the telemetry tests.
TelemetryNext ==
    \/ TelemetryConstruct
    \/ TelemetrySetCallback
    \/ TelemetryDependenciesSetCallback
    \/ EngineRequest
    \/ ExecuteTelemetry
    \/ DependencyRequest
    \/ MiddlewareRequest

TelemetrySpec == Init /\ [][TelemetryNext]_vars

\* ------------------------------------------- several path prefixes
\* The prefixes an application registers with the middleware: "/api",
\* "/api/v1" and "/api/v2" (tests/test_middleware.py 16-26)
Prefixes == {<<"api">>, <<"api", "v1">>, <<"api", "v2">>}

\* Policies told apart by what they do: a warning with a deprecation instant,
\* a sunset answered 410 and a sunset answered 301
WarningPolicy == [DefaultArgs EXCEPT !.deprecation_date = 1]
SunsetPolicy == [DefaultArgs EXCEPT !.sunset_date = 1]
MovedPolicy ==
    [DefaultArgs EXCEPT !.deprecation_date = 1, !.sunset_date = 2,
                        !.alternative = "/new"]
PrefixPolicies == {WarningPolicy, SunsetPolicy, MovedPolicy}

\* Which policy goes with which prefix: each prefix gets each policy in turn,
\* and no two prefixes the same one
PolicyAssignments ==
    {[q \in Prefixes |->
        CASE q = <<"api">> -> c[1] [] q = <<"api", "v1">> -> c[2] [] OTHER -> c[3]] :
        c \in {<<WarningPolicy, SunsetPolicy, MovedPolicy>>,
               <<SunsetPolicy, MovedPolicy, WarningPolicy>>,
               <<MovedPolicy, WarningPolicy, SunsetPolicy>>}}

\* The deprecations dicts an application can hand over: some of the prefixes,
\* in any order of insertion, each with its policy
Registrations ==
    UNION {{[i \in 1..n |-> <<order[i], assigned[order[i]]>>] :
                order \in {o \in [1..n -> Prefixes] :
                              \A i, j \in 1..n : i # j => o[i] # o[j]},
                assigned \in PolicyAssignments} : n \in 1..Cardinality(Prefixes)}

\* The paths requested; the application has no route for the second one
\* (tests/test_middleware.py 41-52)
MissingPath == <<"api", "v2", "missing">>
RoutedPaths ==
    {<<"api", "v1", "test">>, MissingPath, <<"api", "v3", "test">>, <<"other">>}

\* What the wrapped application answers on a path: 404 where it has no route
app_response(path) ==
    [status |-> IF path = MissingPath THEN 404 ELSE 200, headers |-> NoHeaders]

\* sorted_deprecations with the dict left in its order of insertion
sorted_deprecations_as_registered(items) == items

\* middleware.py 27-30: dict(sorted(deprecations.items(), key=lambda item:
\* len(item[0]), reverse=True)), a stable sort, longest prefix first
sorted_deprecations(items) ==
    LET before(i) ==
            Cardinality({j \in DOMAIN items :
                \/ Len(items[j][1]) > Len(items[i][1])
                \/ Len(items[j][1]) = Len(items[i][1]) /\ j < i})
    IN [k \in DOMAIN items |->
            items[CHOOSE i \in DOMAIN items : before(i) = k - 1]]

\* middleware.py 41-45: the position of the first prefix of the dict the path
\* starts with, 0 when matched_dep stays None
first_match(items, path) ==
    IF \E i \in DOMAIN items : startswith(path, items[i][1])
    THEN CHOOSE i \in DOMAIN items :
            /\ startswith(path, items[i][1])
            /\ \A j \in 1..(i - 1) : ~startswith(path, items[j][1])
    ELSE 0

\* openapi.py 57-62: the position in global_deps of the longest prefix the
\* route path starts with, 0 when dep_info stays None; matched_prefix starts
\* as "", so a prefix has to be longer than that
global_match(global_deps, route_path) ==
    LET candidates ==
            {i \in DOMAIN global_deps :
                startswith(route_path, global_deps[i][1]) /\ Len(global_deps[i][1]) > 0}
    IN IF candidates = {} THEN 0
       ELSE CHOOSE i \in candidates :
                \A j \in candidates : Len(global_deps[j][1]) <= Len(global_deps[i][1])

\* The routes of the application as the annotator meets them: a route with no
\* policy of its own on each path that has one, and a route carrying a policy
\* through the decorator or as a DeprecationDependency among its dependencies
Routes ==
    {[path |-> p, own |-> "none", policy |-> DefaultArgs] :
        p \in RoutedPaths \ {MissingPath}}
    \cup {[path |-> <<"other">>, own |-> "decorator", policy |-> c] :
            c \in PrefixPolicies}
    \cup {[path |-> <<"other">>, own |-> "dependency", policy |-> WarningPolicy]}

\* openapi.py 44-62: dep_info for a route. The decorator leaves its
\* DeprecationDependency in __deprecation__ (core.py 105); for a dependency of
\* the route the annotator reads dep.dependency.config, an attribute a
\* DeprecationDependency does not have (dependencies.py 32-65).
dep_info(route, global_deps) ==
    IF route.own = "decorator"
    THEN [error |-> "none", found |-> TRUE, info |-> route.policy, prefix |-> <<>>]
    ELSE IF route.own = "dependency"
    THEN [error |-> "AttributeError", found |-> FALSE, info |-> DefaultArgs,
          prefix |-> <<>>]
    ELSE LET m == global_match(global_deps, route.path) IN
         IF m = 0
         THEN [error |-> "none", found |-> FALSE, info |-> DefaultArgs, prefix |-> <<>>]
         ELSE [error |-> "none", found |-> TRUE, info |-> global_deps[m][2],
               prefix |-> global_deps[m][1]]

\* openapi.py 65-69: is_active_deprecation
is_active_deprecation(info, at) ==
    ~(info.deprecation_date # NoDate /\ info.deprecation_date > at)

\* openapi.py 64-100: what _deprecate_routes leaves on one route, whose
\* deprecated flag and description were unset
annotate(route, global_deps, at) ==
    LET found == dep_info(route, global_deps) IN
    [route |-> route, global_deps |-> global_deps,
     info |-> IF found.found THEN found.info ELSE "none",
     prefix |-> found.prefix, at |-> at,
     deprecated |-> found.found /\ is_active_deprecation(found.info, at),
     description |->
        IF ~found.found THEN "none"
        ELSE IF is_active_deprecation(found.info, at) THEN "**DEPRECATED**"
        ELSE "**UPCOMING DEPRECATION**",
     error |-> found.error]

\* app.add_middleware(DeprecationMiddleware, deprecations=...), once
add_middleware ==
    /\ registry = <<>>
    /\ \E items \in Registrations : registry' = items
    /\ UNCHANGED <<ctor, attach, kwargs, built, policy, now, engine_callback,
                   dependencies_callback, shared_headers, req, resp, calls,
                   docs, conv, inflight>>

\* middleware.py 21-163: a request through the middleware built from the
\* registered dict; the request keeps the prefix and the policy that matched
PrefixRequest ==
    /\ registry # <<>>
    /\ \E t \in now..MaxTime, path \in RoutedPaths,
          outcome \in IF dependencies_callback = "None"
                      THEN {"returned"} ELSE CallbackOutcomes :
        LET items == sorted_deprecations(registry)
            m == first_match(items, path)
            matched_dep == IF m = 0 THEN DefaultArgs ELSE items[m][2]
            served == middleware_call(m # 0, matched_dep, t, path, app_response(path),
                                      dependencies_callback, outcome)
        IN
        /\ now' = t
        /\ req' = served.req @@ [prefix |-> IF m = 0 THEN <<>> ELSE items[m][1],
                                 policy |-> matched_dep]
        /\ resp' = served.resp
        /\ calls' = served.calls
    /\ UNCHANGED <<ctor, attach, kwargs, built, policy, engine_callback,
                   dependencies_callback, shared_headers, registry, docs, conv,
                   inflight>>

\* openapi.py 15-100: auto_deprecate_openapi(app) as it reaches one route,
\* with the middleware's deprecations as global_deps, at the given instant;
\* the application calls it while it is assembled, before it serves
auto_deprecate_openapi ==
    /\ req = NoReq
    /\ \E route \in Routes, at \in Times :
        docs' = annotate(route, registry, at)
    /\ UNCHANGED <<ctor, attach, kwargs, built, policy, now, engine_callback,
                   dependencies_callback, shared_headers, req, resp, calls,
                   registry, conv, inflight>>

PrefixNext ==
    \/ add_middleware
    \/ PrefixRequest
    \/ auto_deprecate_openapi

\* The middleware over several prefixes and the documentation annotator.
PrefixSpec == Init /\ [][PrefixNext]_vars

\* ------------------------------------------------------------ utils.py
\* The values handed to parse_date have instants up to MaxDateTime ticks; a
\* day is TicksPerDay ticks long here.
MaxDateTime == 2 * MaxTime + 1
TicksPerDay == 2 * TicksPerSecond
DateTimes == 0..MaxDateTime
WholeSeconds == 0..(MaxDateTime \div TicksPerSecond)

\* DateInput values (utils.py 6): an aware or a naive datetime, a date, an int
\* or a float timestamp, a string (an ISO-8601 text, the "@<seconds>" form of
\* the Deprecation header, or no date at all), and a value of no such type
DateInputs ==
    {[type |-> "datetime", form |-> f, n |-> t] :
        f \in {"aware", "naive"}, t \in DateTimes}
    \cup {[type |-> "date", form |-> "date", n |-> d] :
            d \in 0..(MaxDateTime \div TicksPerDay)}
    \cup {[type |-> "int", form |-> "timestamp", n |-> k] : k \in WholeSeconds}
    \cup {[type |-> "float", form |-> "timestamp", n |-> t] : t \in DateTimes}
    \cup {[type |-> "str", form |-> "iso", n |-> t] : t \in DateTimes}
    \cup {[type |-> "str", form |-> "@", n |-> k] : k \in WholeSeconds}
    \cup {[type |-> "str", form |-> "invalid-date-string", n |-> 0],
          [type |-> "NoneType", form |-> "None", n |-> 0]}

\* utils.py 33: dateutil.parser.parse(value). An ISO-8601 text gives its
\* instant; "@" is no token of a date and "@<seconds>" is refused with a
\* ParserError, a ValueError, as every text that is no date is.
dateutil_parse(value) ==
    IF value.form = "iso"
    THEN [error |-> "none", instant |-> value.n]
    ELSE [error |-> "ValueError", instant |-> NoDate]

\* utils.py 9-40: parse_date over every kind of input
parse_DateInput(value) ==
    CASE value.type = "datetime" -> [error |-> "none", instant |-> parse_date(value.n)]
      [] value.type = "date" -> [error |-> "none", instant |-> value.n * TicksPerDay]
      [] value.type = "int" -> [error |-> "none", instant |-> value.n * TicksPerSecond]
      [] value.type = "float" -> [error |-> "none", instant |-> value.n]
      [] value.type = "str" -> dateutil_parse(value)
      [] OTHER -> [error |-> "TypeError", instant |-> NoDate]

\* The Deprecation header value as a str handed back to parse_date
header_string(header) == [type |-> "str", form |-> header[1][1], n |-> header[1][2]]

\* A caller holds one DateInput value.
DateInit ==
    /\ Imported
    /\ conv \in {[NoConv EXCEPT !.input = x] : x \in DateInputs}

\* utils.py 9-40: parse_date(value)
ParseDate ==
    /\ conv.stage = "none"
    /\ conv' = [conv EXCEPT !.stage = "parsed", !.parsed = parse_DateInput(conv.input)]
    /\ UNCHANGED <<ctor, attach, kwargs, built, policy, now, engine_callback,
                   dependencies_callback, shared_headers, req, resp, calls,
                   registry, docs, inflight>>

\* utils.py 43-50: format_deprecation_date of the datetime parse_date returned
FormatDeprecationDate ==
    /\ conv.stage = "parsed"
    /\ conv.parsed.error = "none"
    /\ conv' = [conv EXCEPT !.stage = "formatted",
                            !.header = format_deprecation_date(conv.parsed.instant)]
    /\ UNCHANGED <<ctor, attach, kwargs, built, policy, now, engine_callback,
                   dependencies_callback, shared_headers, req, resp, calls,
                   registry, docs, inflight>>

\* utils.py 9-40: parse_date of the header value
ParseHeader ==
    /\ conv.stage = "formatted"
    /\ conv' = [conv EXCEPT !.stage = "reparsed",
                            !.reparsed = parse_DateInput(header_string(conv.header))]
    /\ UNCHANGED <<ctor, attach, kwargs, built, policy, now, engine_callback,
                   dependencies_callback, shared_headers, req, resp, calls,
                   registry, docs, inflight>>

DateNext ==
    \/ ParseDate
    \/ FormatDeprecationDate
    \/ ParseHeader

\* utils.py on its own: a date input parsed, formatted for the Deprecation
\* header and parsed again.
DateSpec == DateInit /\ [][DateNext]_vars

\* ----------------------------------------- telemetry, read by read
\* The code that reads a callback reference: execute_telemetry reads
\* engine._DEPRECATION_CALLBACK once into a local (engine.py 30); the
\* dependency (dependencies.py 140-146) and the middleware (middleware.py
\* 83-92, 153-161) read dependencies._DEPRECATION_CALLBACK at each use.
Readers == {"execute_telemetry", "dependency", "middleware"}

\* The reference a reader finds when it reads now
current_reference(reader) ==
    IF reader = "execute_telemetry" THEN engine_callback ELSE dependencies_callback

\* What calling the reference does, awaited or not (engine.py 33-36): None is
\* not callable; a plain function awaited runs and its None cannot be
\* awaited; a coroutine function called without await never runs.
call_reference(callback, awaited) ==
    IF callback = "None"
    THEN [ran |-> <<>>, raised |-> "TypeError"]
    ELSE IF awaited /\ ~iscoroutinefunction(callback)
    THEN [ran |-> <<callback>>, raised |-> "TypeError"]
    ELSE IF ~awaited /\ iscoroutinefunction(callback)
    THEN [ran |-> <<>>, raised |-> "none"]
    ELSE [ran |-> <<callback>>, raised |-> "none"]

\* A request reaches its telemetry block.
BeginTelemetry ==
    /\ inflight.pc \in {"idle", "done"}
    /\ \E reader \in Readers :
        inflight' = [NoFlight EXCEPT !.pc = "check", !.reader = reader]
    /\ UNCHANGED <<ctor, attach, kwargs, built, policy, now, engine_callback,
                   dependencies_callback, shared_headers, req, resp, calls,
                   registry, docs, conv>>

\* engine.py 30-31, dependencies.py 140, middleware.py 83 and 153: the test
\* of the reference
CheckCallback ==
    /\ inflight.pc = "check"
    /\ LET seen == current_reference(inflight.reader) IN
       inflight' = [inflight EXCEPT !.checked = seen,
                                    !.pc = IF seen = "None" THEN "done" ELSE "inspect"]
    /\ UNCHANGED <<ctor, attach, kwargs, built, policy, now, engine_callback,
                   dependencies_callback, shared_headers, req, resp, calls,
                   registry, docs, conv>>

\* engine.py 33, dependencies.py 143, middleware.py 85 and 158:
\* inspect.iscoroutinefunction of the local, or of the global read again
InspectCallback ==
    /\ inflight.pc = "inspect"
    /\ inflight' = [inflight EXCEPT
                      !.inspected = IF inflight.reader = "execute_telemetry"
                                    THEN inflight.checked
                                    ELSE current_reference(inflight.reader),
                      !.pc = "call"]
    /\ UNCHANGED <<ctor, attach, kwargs, built, policy, now, engine_callback,
                   dependencies_callback, shared_headers, req, resp, calls,
                   registry, docs, conv>>

\* engine.py 34-40, dependencies.py 144-149, middleware.py 86-94 and 159-163:
\* the call of the local, or of the global read once more, inside try/except
CallCallback ==
    /\ inflight.pc = "call"
    /\ LET target == IF inflight.reader = "execute_telemetry"
                     THEN inflight.checked
                     ELSE current_reference(inflight.reader)
           done == call_reference(target, iscoroutinefunction(inflight.inspected))
       IN inflight' = [inflight EXCEPT !.called = target, !.ran = done.ran,
                                       !.error = except_Exception(
                                           IF done.raised = "none" THEN "returned"
                                           ELSE "Exception"),
                                       !.pc = "done"]
    /\ UNCHANGED <<ctor, attach, kwargs, built, policy, now, engine_callback,
                   dependencies_callback, shared_headers, req, resp, calls,
                   registry, docs, conv>>

RaceNext ==
    \/ TelemetrySetCallback
    \/ TelemetryDependenciesSetCallback
    \/ BeginTelemetry
    \/ CheckCallback
    \/ InspectCallback
    \/ CallCallback

\* set_deprecation_callback calls interleaved with the reads of a request's
\* telemetry block.
RaceSpec == Init /\ [][RaceNext]_vars

\* ------------------------------------------------------------ claims
\* The latest request was decided by evaluate_deprecation.
EngineDecided == req.kind = "engine"

\* The latest request was decided under the policy (by the engine, the
\* dependency, the decorator, or the middleware on a matching path).
Governed == req.action \in {"WARN", "BLOCK"}

\* now lies in some window of the policy, both bounds inclusive
InSomeWindow ==
    \E i \in 1..Len(policy.brownouts) :
        policy.brownouts[i][1] <= now /\ now <= policy.brownouts[i][2]

\* C1: whenever the sunset instant is set and sunset <= now, evaluate returns
\* Block, whatever the brownout windows, the brownout probability, the
\* progressive flag and the draw are.
C1_SunsetAlwaysBlocks ==
    (EngineDecided /\ policy.sunset_date # NoDate /\ policy.sunset_date <= now)
        => /\ req.action = "BLOCK"
           /\ \A r \in Draws : evaluate_deprecation(policy, now, r).action = "BLOCK"

C1_Witness ==
    /\ EngineDecided
    /\ policy.sunset_date = now
    /\ policy.brownout_probability > 0
    /\ policy.progressive_brownout
    /\ policy.brownouts # <<>>
    /\ ~InSomeWindow
    /\ req.action = "BLOCK"

\* C2: with no sunset instant, no brownout windows and brownout probability 0,
\* evaluate returns Warn at every instant and for every draw, also with the
\* progressive flag set and a deprecation instant in the past.
C2_NoBlockingConfigWarns ==
    (/\ EngineDecided
     /\ policy.sunset_date = NoDate
     /\ policy.brownouts = <<>>
     /\ policy.brownout_probability = 0)
        => /\ req.action = "WARN"
           /\ \A r \in Draws : evaluate_deprecation(policy, now, r).action = "WARN"

C2_Witness ==
    /\ EngineDecided
    /\ policy.sunset_date = NoDate
    /\ policy.brownouts = <<>>
    /\ policy.brownout_probability = 0
    /\ policy.progressive_brownout
    /\ policy.deprecation_date # NoDate
    /\ policy.deprecation_date < now
    /\ req.action = "WARN"

\* C3: when brownout windows are the only blocking configuration in force (no
\* probability, and no sunset or a sunset still ahead of now), a request is
\* blocked if and only if now lies in some window, bounds included; otherwise
\* it is a Warn and the application's answer passes through.
C3_BlockedIffInWindow ==
    (/\ Governed
     /\ policy.brownout_probability = 0
     /\ ~policy.progressive_brownout
     /\ (policy.sunset_date = NoDate \/ now < policy.sunset_date))
        => /\ req.action = "BLOCK" <=> InSomeWindow
           /\ req.action = "BLOCK" => resp.status \in {301, 410} /\ ~resp.app_called
           /\ req.action = "WARN" => resp.status = 200 /\ resp.app_called

C3_Witness ==
    /\ req.kind = "decorator"
    /\ Len(policy.brownouts) = 2
    /\ now = policy.brownouts[1][2]
    /\ policy.brownouts[1][1] < now
    /\ policy.sunset_date = NoDate
    /\ req.action = "BLOCK"
    /\ resp.status = 410

\* The draws random.random() can have returned in the latest request: the one
\* it did return, or any value when the code never called it.
PossibleDraws == {r \in Draws : req.draws = <<>> \/ req.draws = <<r>>}

\* now is in the progressive ramp of the policy and in no brownout window
InProgressiveRamp ==
    /\ policy.progressive_brownout
    /\ policy.deprecation_date # NoDate
    /\ policy.sunset_date # NoDate
    /\ policy.deprecation_date < policy.sunset_date
    /\ policy.deprecation_date <= now
    /\ now < policy.sunset_date
    /\ ~InSomeWindow

\* r < (now - deprecation) / (sunset - deprecation), for r = draw / Den
BelowRamp(draw) ==
    draw * (policy.sunset_date - policy.deprecation_date)
        < (now - policy.deprecation_date) * Den

\* C4: under a progressive policy with deprecation < sunset, a request at now
\* with deprecation <= now < sunset and outside every window is blocked if and
\* only if the draw r satisfies r < (now - deprecation) / (sunset - deprecation).
C4_ProgressiveBlockedIffDraw ==
    (Governed /\ InProgressiveRamp)
        => \A r \in PossibleDraws : req.action = "BLOCK" <=> BelowRamp(r)

\* What evaluate_deprecation itself does in the case C4 is about.
C4_EngineProgressive ==
    (EngineDecided /\ InProgressiveRamp)
        => /\ Len(req.draws) = 1
           /\ req.action = "BLOCK" <=> BelowRamp(req.draws[1])

\* now is neither past sunset nor inside a brownout window, and the policy has
\* a static brownout probability with the progressive flag off
InStaticChaos ==
    /\ policy.brownout_probability > 0
    /\ ~policy.progressive_brownout
    /\ ~(policy.sunset_date # NoDate /\ policy.sunset_date <= now)
    /\ ~InSomeWindow

\* the deprecation instant is set and reached, and r < p for r = draw / Den
StaticBlocks(draw) ==
    /\ policy.deprecation_date # NoDate
    /\ policy.deprecation_date <= now
    /\ draw < policy.brownout_probability

\* C5: under a static brownout probability p > 0 with progressive off, a
\* request that is neither past sunset nor inside a window is blocked if and
\* only if the deprecation instant is set, now >= deprecation, and r < p.
C5_StaticBlockedIffDraw ==
    (Governed /\ InStaticChaos)
        => \A r \in PossibleDraws : req.action = "BLOCK" <=> StaticBlocks(r)

\* What evaluate_deprecation itself does in the case C5 is about.
C5_EngineStatic ==
    (EngineDecided /\ InStaticChaos)
        => \A r \in PossibleDraws : req.action = "BLOCK" <=> StaticBlocks(r)

\* C6: every response to a request decided under a policy, Warn or Block,
\* through the engine, the dependency or decorator, or the middleware, carries
\* a Deprecation header.
C6_DeprecationHeaderAlways ==
    Governed => resp.headers["Deprecation"] # <<>>

\* What the engine functions themselves do for C6.
C6_EngineDeprecationHeader ==
    EngineDecided => resp.headers["Deprecation"] # <<>>

\* a is a suffix of b
IsSuffix(a, b) ==
    /\ Len(a) <= Len(b)
    /\ \A i \in 1..Len(a) : b[Len(b) - Len(a) + i] = a[i]

\* the headers of a Block decision on the policy at now
DecisionHeaders == result_headers(policy, now, TRUE)

\* C7: every block response (custom, 301 or 410) carries the headers of the
\* Block decision: Deprecation, Sunset when a sunset instant is configured, and
\* the Link relations when links are configured, whichever adapter built it.
C7_BlockCarriesDecisionHeaders ==
    (Governed /\ req.action = "BLOCK")
        => /\ resp.headers["Deprecation"] = DecisionHeaders["Deprecation"]
           /\ resp.headers["Sunset"] = DecisionHeaders["Sunset"]
           /\ IsSuffix(DecisionHeaders["Link"], resp.headers["Link"])

\* What build_block_response itself does for C7.
C7_EngineBlockCarriesHeaders ==
    (EngineDecided /\ req.action = "BLOCK")
        => /\ resp.headers["Deprecation"] = DecisionHeaders["Deprecation"]
           /\ resp.headers["Sunset"] = DecisionHeaders["Sunset"]
           /\ IsSuffix(DecisionHeaders["Link"], resp.headers["Link"])

\* detail, or the given default message when no detail is configured
DetailOr(default) == IF policy.detail # "None" THEN policy.detail ELSE default

C9_CustomResponseWins ==
    (Governed /\ req.action = "BLOCK" /\ policy.custom_response # "None")
        => /\ resp.status = 410
           /\ resp.body = CustomBody
           /\ resp.headers["Location"] = <<>>
           /\ resp.headers["Deprecation"] # <<>>
           /\ policy.sunset_date # NoDate => resp.headers["Sunset"] # <<>>

\* What build_block_response and the dependency do for C9.
C9_EngineAndDependencyCustom ==
    (/\ req.kind \in {"engine", "dependency"}
     /\ req.action = "BLOCK"
     /\ policy.custom_response # "None")
        => /\ resp.status = 410
           /\ resp.body = CustomBody
           /\ resp.headers["Location"] = <<>>
           /\ resp.headers["Deprecation"] # <<>>
           /\ policy.sunset_date # NoDate => resp.headers["Sunset"] # <<>>

\* A step that serves a request through an adapter.
AdapterRequest == DependencyRequest \/ MiddlewareRequest

\* C10: once a callback is registered through the package's exported
\* set_deprecation_callback, each request served with a warning by an adapter
\* invokes that callback exactly once.
C10_ExportedSetterReachesAdapters ==
    [][(AdapterRequest /\ engine_callback # "None" /\ req'.action = "WARN")
          => /\ Len(calls') = 1
             /\ calls'[1].callback = engine_callback]_vars

\* What the adapters do with the callback dependencies.set_deprecation_callback
\* registered.
C10_DependenciesSetterReachesAdapters ==
    [][(AdapterRequest /\ dependencies_callback # "None" /\ req'.action = "WARN")
          => /\ Len(calls') = 1
             /\ calls'[1].callback = dependencies_callback]_vars

\* The latest request was served by an adapter: the dependency, the
\* decorator or the middleware.
AdapterServed == req.kind \in {"dependency", "decorator", "middleware"}

\* C11: with a sink registered (here with the setter whose reference the
\* adapters read), every request an adapter evaluates, Warn or Block, invokes
\* the sink exactly once, and the sink sees the status the client gets: the
\* block status for a blocked request, the served status for a warned one.
C11_SinkOncePerEvaluatedRequest ==
    [][(/\ AdapterRequest
        /\ dependencies_callback # "None"
        /\ req'.action \in {"WARN", "BLOCK"})
          => /\ Len(calls') = 1
             /\ calls'[1].callback = dependencies_callback
             /\ calls'[1].status = resp'.status]_vars

\* What the middleware does for C11.
C11_MiddlewareSinkOnce ==
    [][(/\ MiddlewareRequest
        /\ dependencies_callback # "None"
        /\ req'.action \in {"WARN", "BLOCK"})
          => /\ Len(calls') = 1
             /\ calls'[1].callback = dependencies_callback
             /\ calls'[1].status = resp'.status]_vars

\* The response the latest request gets from its adapter when no sink is
\* registered (a sink is reached on the warning path of the dependency and on
\* both paths of the middleware).
ServedWithoutSink ==
    CASE req.kind \in {"dependency", "decorator"} /\ req.action = "WARN" ->
           [status |-> 200, headers |-> dependency_warn_headers(policy, now),
            body |-> AppBody, app_called |-> TRUE]
      [] req.kind = "middleware" /\ req.action = "WARN" ->
           [status |-> req.app.status,
            headers |-> middleware_warn_headers(policy, now, req.app.headers),
            body |-> AppBody, app_called |-> TRUE]
      [] req.kind = "middleware" /\ req.action = "BLOCK" ->
           [status |-> middleware_block(policy).status,
            headers |-> middleware_block(policy).headers,
            body |-> middleware_block(policy).body, app_called |-> FALSE]
      [] OTHER -> resp

\* The sink was invoked for the latest request and failed.
SinkFailed == calls # <<>> /\ calls[1].outcome = "Exception"

\* C12: a sink that fails, a plain callback that raises or a coroutine
\* function whose awaited completion raises, changes nothing: the action,
\* status, headers and body are those delivered with no sink registered and no
\* error leaves the handler, on the Warn and on the Block path.
C12_FailingSinkChangesNothing ==
    SinkFailed
        => /\ req.error = "none"
           /\ req.action \in {"WARN", "BLOCK"}
           /\ resp.status # 500
           /\ resp = ServedWithoutSink

C12_Witness ==
    /\ SinkFailed
    /\ calls[1].awaited
    /\ req.kind = "middleware"
    /\ req.action = "BLOCK"
    /\ resp.status = 410
    /\ req.error = "none"

\* C13: the response context handed to the sink for a warned request already
\* has every synthesized header the client receives, and the final status.
C13_SinkSeesFinalResponse ==
    (AdapterServed /\ req.action = "WARN" /\ calls # <<>>)
        => /\ calls[1].headers = resp.headers
           /\ calls[1].status = resp.status

\* What the middleware does for C13.
C13_MiddlewareSinkSeesFinalResponse ==
    (req.kind = "middleware" /\ req.action = "WARN" /\ calls # <<>>)
        => /\ calls[1].headers = resp.headers
           /\ calls[1].status = resp.status

\* A step in which a callback can be invoked.
TelemetryStep == AdapterRequest \/ ExecuteTelemetry

\* C14: one sink is active at a time, the argument of the last call of the
\* package's set_deprecation_callback: a request invokes at most one callback,
\* no callback other than that one, and none at all after
\* set_deprecation_callback(None).
C14_LastRegisteredIsActive ==
    [][TelemetryStep
          => /\ Len(calls') <= 1
             /\ \A i \in DOMAIN calls' : calls'[i].callback = engine_callback
             /\ engine_callback = "None" => calls' = <<>>]_vars

\* What each of the two references does on its own for C14: the adapters
\* invoke what dependencies.set_deprecation_callback stored last, and
\* execute_telemetry what engine.set_deprecation_callback stored last.
C14_EachReferenceReplaces ==
    [][(AdapterRequest
          => /\ Len(calls') <= 1
             /\ \A i \in DOMAIN calls' : calls'[i].callback = dependencies_callback)
       /\ (ExecuteTelemetry
          => /\ Len(calls') <= 1
             /\ \A i \in DOMAIN calls' : calls'[i].callback = engine_callback)]_vars

\* both dates are given
BothDates(a) == a.deprecation_date # NoDate /\ a.sunset_date # NoDate

\* One of the two policy constructors was called.
PolicyConstructed == ctor \in {"DeprecationConfig", "DeprecationDependency"} /\ built # "none"

\* The keyword arguments the constructor called has no parameter for.
NotInSignature ==
    IF ctor = "DeprecationConfig" THEN {"link"}
    ELSE {"cache_tag", "brownout_probability", "progressive_brownout"}

InvalidChaos(a) ==
    \/ a.progressive_brownout /\ a.brownout_probability # 0
    \/ a.progressive_brownout /\ ~BothDates(a)
    \/ a.brownout_probability < 0
    \/ a.brownout_probability > Den

\* C16: construction is rejected when progressive brownout comes with a
\* nonzero static probability or without both dates, or when the probability
\* is outside [0, 1]; no such policy reaches evaluation.
C16_InvalidChaosRejected ==
    /\ (PolicyConstructed /\ InvalidChaos(kwargs)) => built # "ok"
    /\ Governed => ~InvalidChaos(policy)

\* What the constructors do accept of the settings C16 is about.
C16_DependencyRejectsChaosArguments ==
    (ctor \in {"DeprecationDependency", "deprecated"} /\ built # "none"
        /\ InvalidChaos(kwargs))
        => built = "TypeError"

\* the instant the Deprecation header is about
DeprecationInstant ==
    IF policy.deprecation_date # NoDate THEN policy.deprecation_date ELSE now

\* C17: the Deprecation header is "@" followed by the whole Unix seconds of
\* the deprecation instant when one is configured and of now otherwise,
\* truncated and not rounded.
C17_DeprecationValue ==
    (Governed /\ resp.headers["Deprecation"] # <<>>)
        => resp.headers["Deprecation"]
               = << <<"@", DeprecationInstant \div TicksPerSecond>> >>

C17_Witness ==
    /\ Governed
    /\ policy.deprecation_date = NoDate
    /\ now % TicksPerSecond # 0
    /\ 2 * (now % TicksPerSecond) >= TicksPerSecond
    /\ resp.headers["Deprecation"] = << <<"@", now \div TicksPerSecond>> >>

\* the positions of max-age directives in the response's Cache-Control
MaxAgeTokens ==
    {i \in DOMAIN resp.headers["Cache-Control"] :
        resp.headers["Cache-Control"][i][1] = "max-age"}

\* whole seconds from now to sunset
SecondsToSunset == (policy.sunset_date - now) \div TicksPerSecond

\* the conditions under which max-age is due for the latest request
MaxAgeDue ==
    /\ policy.inject_cache_control
    /\ policy.sunset_date # NoDate
    /\ req.action # "BLOCK"
    /\ SecondsToSunset > 0

\* the keyword arguments differ from the defaults in the given fields at most
OnlyPassed(names) == ~Passed(kwargs, (DOMAIN DefaultArgs) \ names)

\* What evaluate_deprecation, the dependency and the middleware do for C18 on
\* the policies they are given.
C18_MaxAgeIffDueOnRequests ==
    Governed
        => /\ MaxAgeTokens # {} <=> MaxAgeDue
           /\ resp.headers["Cache-Control"]
                = req.app.headers["Cache-Control"]
                    \o (IF MaxAgeDue THEN << <<"max-age", SecondsToSunset>> >> ELSE <<>>)

\* C18: max-age=<n> is emitted if and only if inject-cache-control is on, a
\* sunset is set, the request is not blocked and n, the whole seconds from now
\* to sunset, is positive, appended to an existing Cache-Control value; and
\* inject-cache-control can be switched on for every attachment, the decorated
\* endpoint included.
C18_MaxAgeIffConfigured ==
    /\ C18_MaxAgeIffDueOnRequests
    /\ (/\ built # "none"
        /\ kwargs.inject_cache_control
        /\ OnlyPassed({"deprecation_date", "sunset_date", "inject_cache_control"}))
            => built # "TypeError"

\* the Link tokens of the policy's relations
LinkTokens == new_links(policy.links)

\* What the warning paths do for C19.
C19_WarnLinkAppended ==
    /\ (Governed /\ req.action = "WARN" /\ policy.links # <<>>)
            => resp.headers["Link"] = req.app.headers["Link"] \o LinkTokens
    /\ (built = "ok" /\ kwargs.link # "None")
            => \E i \in DOMAIN policy.links :
                   policy.links[i] = <<"deprecation", kwargs.link>>

\* C19: under a policy with link relations the response's Link header is the
\* Link value the response already had followed by exactly one token per
\* relation, the single link argument being the relation "deprecation"; this
\* on every governed response, and for links given through any attachment.
C19_LinkTokensAppended ==
    /\ (Governed /\ policy.links # <<>>)
            => resp.headers["Link"] = req.app.headers["Link"] \o LinkTokens
    /\ (built = "ok" /\ kwargs.link # "None")
            => \E i \in DOMAIN policy.links :
                   policy.links[i] = <<"deprecation", kwargs.link>>
    /\ (/\ ctor \in {"DeprecationDependency", "deprecated"}
        /\ built # "none"
        /\ OnlyPassed({"deprecation_date", "sunset_date", "link", "links"})
        /\ ~(BothDates(kwargs) /\ kwargs.deprecation_date > kwargs.sunset_date))
            => built = "ok"

\* the Cache-Tag and Surrogate-Key value the policy calls for
CacheTagDue == IF policy.cache_tag # "None" THEN <<policy.cache_tag>> ELSE <<>>

\* What evaluate_deprecation and build_block_response do for C20.
C20_EngineCacheTag ==
    EngineDecided
        => /\ resp.headers["Cache-Tag"] = CacheTagDue
           /\ resp.headers["Surrogate-Key"] = CacheTagDue

\* C20: Cache-Tag and Surrogate-Key are both emitted, equal to the cache tag,
\* if and only if a cache tag is configured, on Warn and on Block responses;
\* a decorated endpoint can be configured with cache_tag.
C20_CacheTagIffConfigured ==
    /\ Governed
        => /\ resp.headers["Cache-Tag"] = CacheTagDue
           /\ resp.headers["Surrogate-Key"] = CacheTagDue
    /\ (/\ ctor = "deprecated"
        /\ built # "none"
        /\ kwargs.cache_tag # "None"
        /\ OnlyPassed({"deprecation_date", "sunset_date", "cache_tag"}))
            => built # "TypeError"

\* the prefixes of the dict the path starts with
MatchingPrefixes(items, path) ==
    {items[i][1] : i \in {k \in DOMAIN items : startswith(path, items[k][1])}}

\* prefix is the longest of the prefixes of the dict the path starts with
IsLongestMatch(items, prefix, path) ==
    /\ prefix \in MatchingPrefixes(items, path)
    /\ \A q \in MatchingPrefixes(items, path) : Len(q) <= Len(prefix)

\* the policy the dict holds under the prefix
RegisteredPolicy(items, prefix) ==
    items[CHOOSE i \in DOMAIN items : items[i][1] = prefix][2]

\* The latest request went through the middleware.
ThroughMiddleware == req.kind = "middleware"

\* The annotator has met a route that carries no policy of its own.
AnnotatedBareRoute == docs.route.path # <<>> /\ docs.route.own = "none"

\* C21: when registered prefixes match a request path, the middleware applies
\* the policy of the longest matching prefix, and so does the annotator for a
\* route path, whatever the order of registration; a request whose path
\* matches no prefix passes to the application untouched, with no Deprecation
\* header.
C21_LongestPrefixWins ==
    /\ (ThroughMiddleware /\ MatchingPrefixes(registry, req.path) # {})
        => /\ IsLongestMatch(registry, req.prefix, req.path)
           /\ req.policy = RegisteredPolicy(registry, req.prefix)
           /\ req.action
                = IF middleware_is_sunset(RegisteredPolicy(registry, req.prefix), now)
                  THEN "BLOCK" ELSE "WARN"
    /\ (ThroughMiddleware /\ MatchingPrefixes(registry, req.path) = {})
        => /\ req.action = "PASS"
           /\ resp.app_called
           /\ resp.status = app_response(req.path).status
           /\ resp.headers = app_response(req.path).headers
           /\ resp.headers["Deprecation"] = <<>>
    /\ (AnnotatedBareRoute /\ MatchingPrefixes(docs.global_deps, docs.route.path) # {})
        => /\ IsLongestMatch(docs.global_deps, docs.prefix, docs.route.path)
           /\ docs.info = RegisteredPolicy(docs.global_deps, docs.prefix)
    /\ (AnnotatedBareRoute /\ MatchingPrefixes(docs.global_deps, docs.route.path) = {})
        => docs.info = "none" /\ ~docs.deprecated

C21_Witness ==
    /\ Len(registry) = 2
    /\ registry[1][1] = <<"api">>
    /\ registry[2][1] = <<"api", "v1">>
    /\ ThroughMiddleware
    /\ req.path = <<"api", "v1", "test">>
    /\ req.prefix = <<"api", "v1">>
    /\ req.action = "BLOCK"
    /\ ~middleware_is_sunset(registry[1][2], now)
    /\ docs.global_deps = registry
    /\ docs.route.path = <<"api", "v1", "test">>
    /\ docs.prefix = <<"api", "v1">>

\* C22: a request the middleware blocks never reaches the wrapped
\* application: the block response, 410 or 301, is what the client gets, also
\* on a path the application has no route for (410, not 404).
C22_BlockNeverReachesApplication ==
    /\ (ThroughMiddleware /\ req.action = "BLOCK")
        => /\ ~resp.app_called
           /\ req.app = NoApp
           /\ resp.body # AppBody
           /\ resp.status = IF req.policy.alternative # "None" THEN 301 ELSE 410
    /\ (/\ ThroughMiddleware
        /\ MatchingPrefixes(registry, req.path) # {}
        /\ middleware_is_sunset(req.policy, now))
        => req.action = "BLOCK"

C22_Witness ==
    /\ ThroughMiddleware
    /\ req.path = MissingPath
    /\ app_response(req.path).status = 404
    /\ req.action = "BLOCK"
    /\ resp.status = 410
    /\ ~resp.app_called

\* The annotator has met a route.
Annotated == docs.route.path # <<>>

\* The route the annotator met carries a policy: its own, or the one of a
\* registered prefix its path starts with.
CarriesPolicy ==
    docs.route.own # "none" \/ MatchingPrefixes(docs.global_deps, docs.route.path) # {}

\* the policy the route carries
CarriedPolicy ==
    IF docs.route.own # "none" THEN docs.route.policy
    ELSE RegisteredPolicy(docs.global_deps,
                          CHOOSE q \in MatchingPrefixes(docs.global_deps, docs.route.path) :
                              IsLongestMatch(docs.global_deps, q, docs.route.path))

\* the carried policy's deprecation instant is unset or reached when the
\* documentation is generated
DeprecationReached ==
    CarriedPolicy.deprecation_date = NoDate \/ CarriedPolicy.deprecation_date <= docs.at

\* C23: the annotator flags a route that carries a policy as deprecated if and
\* only if the policy has no deprecation instant or the instant is not after
\* the generation instant; a future deprecation leaves the route un-flagged
\* and described as upcoming; a route with no policy is never flagged.
C23_FlaggedIffDeprecationReached ==
    /\ (Annotated /\ CarriesPolicy)
        => /\ docs.error = "none"
           /\ docs.deprecated <=> DeprecationReached
           /\ docs.description = IF DeprecationReached THEN "**DEPRECATED**"
                                 ELSE "**UPCOMING DEPRECATION**"
    /\ (Annotated /\ ~CarriesPolicy)
        => ~docs.deprecated /\ docs.description = "none"

\* What the annotator does for C23 on routes decorated with the policy or
\* under a registered prefix.
C23_DecoratedAndPrefixRoutesFlagged ==
    /\ (Annotated /\ CarriesPolicy /\ docs.route.own # "dependency")
        => /\ docs.error = "none"
           /\ docs.deprecated <=> DeprecationReached
           /\ docs.description = IF DeprecationReached THEN "**DEPRECATED**"
                                 ELSE "**UPCOMING DEPRECATION**"
    /\ (Annotated /\ ~CarriesPolicy)
        => ~docs.deprecated /\ docs.description = "none"

\* Whether a request at instant t with draw r is blocked under the policy, by
\* the code that decided the latest request.
BlockedAt(t, r) ==
    CASE req.kind = "engine" -> evaluate_deprecation(policy, t, r).action = "BLOCK"
      [] req.kind = "middleware" -> middleware_is_sunset(policy, t)
      [] OTHER -> dependency_is_sunset(policy, t)

\* The latest request was blocked at or after the deprecation instant of a
\* policy with progressive brownout.
BlockedUnderProgressive ==
    /\ Governed
    /\ req.action = "BLOCK"
    /\ policy.progressive_brownout
    /\ policy.sunset_date # NoDate
    /\ policy.deprecation_date # NoDate
    /\ policy.deprecation_date <= now

\* C24 as stated: under a progressive policy and with the draw held fixed, a
\* request blocked at t1 >= deprecation is blocked at every later instant too.
C24_BlockedStaysBlocked ==
    BlockedUnderProgressive
        => \A t2 \in now..MaxTime : \A r \in PossibleDraws : BlockedAt(t2, r)

\* C24: under a progressive policy and with the draw held fixed, a request
\* blocked at t1 >= deprecation with t1 outside every brownout window is
\* blocked at every later instant too; a block by a window ends with it.
C24_BlockedOutsideWindowsStaysBlocked ==
    (BlockedUnderProgressive /\ ~InSomeWindow)
        => \A t2 \in now..MaxTime : \A r \in PossibleDraws : BlockedAt(t2, r)

C24_Witness ==
    /\ EngineDecided
    /\ BlockedUnderProgressive
    /\ ~InSomeWindow
    /\ Len(req.draws) = 1
    /\ req.draws[1] > 0
    /\ now + 1 < policy.sunset_date
    /\ BlockedAt(now + 1, req.draws[1])

\* The policy has progressive brownout on a ramp of length zero.
ZeroLengthRamp ==
    /\ policy.progressive_brownout
    /\ policy.deprecation_date # NoDate
    /\ policy.sunset_date = policy.deprecation_date

\* C26: with sunset = deprecation under progressive brownout nothing is
\* divided (no probability is computed, no draw made): the request is blocked
\* at every now >= deprecation and warned at now < deprecation outside the
\* windows; and a progressive probability that is computed is elapsed / total
\* with total > 0 and 0 <= elapsed < total.
C26_ZeroLengthRamp ==
    /\ (Governed /\ ZeroLengthRamp)
        => /\ req.draws = <<>>
           /\ now >= policy.deprecation_date => req.action = "BLOCK"
           /\ (now < policy.deprecation_date /\ ~InSomeWindow) => req.action = "WARN"
    /\ (EngineDecided /\ progressive_branch(policy) /\ req.draws # <<>>)
        => /\ policy.sunset_date - policy.deprecation_date > 0
           /\ 0 <= now - policy.deprecation_date
           /\ now - policy.deprecation_date < policy.sunset_date - policy.deprecation_date

C26_Witness ==
    /\ EngineDecided
    /\ ZeroLengthRamp
    /\ now = policy.deprecation_date
    /\ policy.brownouts = <<>>
    /\ req.action = "BLOCK"
    /\ req.draws = <<>>

\* C27: an adapter blocks a request if and only if evaluate_deprecation
\* returns Block for the same policy, instant and draw, a block by a draw
\* included.
C27_AdaptersAgreeWithEngine ==
    (AdapterServed /\ Governed)
        => \A r \in PossibleDraws :
               req.action = "BLOCK"
                   <=> evaluate_deprecation(policy, now, r).action = "BLOCK"

\* What the adapters do for C27 on policies without a brownout probability.
C27_AdaptersAgreeWithoutChaos ==
    (/\ AdapterServed
     /\ Governed
     /\ policy.brownout_probability <= 0
     /\ ~policy.progressive_brownout)
        => \A r \in PossibleDraws :
               req.action = "BLOCK"
                   <=> evaluate_deprecation(policy, now, r).action = "BLOCK"

\* The latest request was blocked with the response object given as
\* custom_response, by code that uses it.
BlockedWithSharedResponse ==
    /\ req.kind \in {"engine", "dependency", "decorator"}
    /\ req.action = "BLOCK"
    /\ policy.custom_response = "value"

\* C28: block responses built from one custom response value do not
\* accumulate: every one of them has each link relation once, as the first
\* had, and the configured response stays as it was at construction.
C28_BlockResponsesDoNotAccumulate ==
    BlockedWithSharedResponse
        => /\ resp.headers["Link"] = LinkTokens
           /\ shared_headers = NoHeaders

\* What the code does for C28 when the custom response is a factory called
\* for each block.
C28_FactoryResponsesAreFresh ==
    (/\ req.kind \in {"engine", "dependency", "decorator"}
     /\ req.action = "BLOCK"
     /\ policy.custom_response = "factory")
        => /\ resp.headers["Link"] = LinkTokens
           /\ shared_headers = NoHeaders

\* The policy sets progressive brownout and a static probability.
BothChaos == policy.progressive_brownout /\ policy.brownout_probability > 0

\* C30: under a policy with both progressive brownout and a static
\* probability, at most one draw is made; with a sunset set the static
\* probability is not used, and between deprecation and sunset, outside the
\* windows, the request is blocked if and only if r < elapsed / total; the
\* static probability decides only when no sunset is set.
C30_ProgressiveTakesPrecedence ==
    (Governed /\ BothChaos)
        => /\ Len(req.draws) <= 1
           /\ InProgressiveRamp
                => \A r \in PossibleDraws : req.action = "BLOCK" <=> BelowRamp(r)
           /\ (policy.sunset_date = NoDate /\ ~InSomeWindow)
                => \A r \in PossibleDraws : req.action = "BLOCK" <=> StaticBlocks(r)

\* What evaluate_deprecation itself does for C30.
C30_EngineProgressiveTakesPrecedence ==
    (EngineDecided /\ BothChaos)
        => /\ Len(req.draws) <= 1
           /\ InProgressiveRamp
                => /\ Len(req.draws) = 1
                   /\ req.action = "BLOCK" <=> BelowRamp(req.draws[1])
           /\ (policy.sunset_date = NoDate /\ ~InSomeWindow)
                => \A r \in PossibleDraws : req.action = "BLOCK" <=> StaticBlocks(r)

\* A date input went through parse_date, format_deprecation_date and
\* parse_date again.
RoundTripDone == conv.stage = "reparsed"

\* C25: for every input parse_date accepts, parse_date of the Deprecation
\* header value made from it succeeds and gives the same whole second: the
\* "@<seconds>" string is an input parse_date maps back to the instant.
C25_HeaderRoundTrip ==
    RoundTripDone
        => /\ conv.reparsed.error = "none"
           /\ conv.reparsed.instant \div TicksPerSecond
                = conv.parsed.instant \div TicksPerSecond

\* What utils.py does for C25: the header holds the whole second of the
\* instant, and that number, given as an int, parses back to the second.
C25_HeaderHoldsWholeSecond ==
    conv.stage \in {"formatted", "reparsed"}
        => /\ conv.header = << <<"@", conv.parsed.instant \div TicksPerSecond>> >>
           /\ parse_DateInput([type |-> "int", form |-> "timestamp",
                               n |-> conv.header[1][2]]).instant \div TicksPerSecond
                = conv.parsed.instant \div TicksPerSecond

\* A request's telemetry block has run to its end.
TelemetryDone == inflight.pc = "done"

\* the one invocation the reference tested would get on its own
OwnInvocation ==
    IF inflight.checked = "None" THEN <<>> ELSE <<inflight.checked>>

\* C29: however set_deprecation_callback calls interleave with a request, the
\* request runs at most one callback, and the reference it tested is the one
\* it inspects and calls: never the test on one reference and the call on
\* another; no error leaves the block.
C29_OneReferencePerRequest ==
    TelemetryDone
        => /\ Len(inflight.ran) <= 1
           /\ inflight.error = "none"
           /\ inflight.checked # "None"
                => /\ inflight.inspected = inflight.checked
                   /\ inflight.called = inflight.checked
                   /\ inflight.ran = OwnInvocation

\* What execute_telemetry does for C29, and what every reader keeps.
C29_ExecuteTelemetryReadsOnce ==
    TelemetryDone
        => /\ Len(inflight.ran) <= 1
           /\ inflight.error = "none"
           /\ (inflight.reader = "execute_telemetry" /\ inflight.checked # "None")
                => /\ inflight.inspected = inflight.checked
                   /\ inflight.called = inflight.checked
                   /\ inflight.ran = OwnInvocation

====
